---- MODULE Spec2Model ----
(***************************************************************************)
(* Telecom Billing Reconciliation Dashboard (streamlit_app.py).            *)
(*                                                                         *)
(* The script is a Streamlit page: every change of a widget re-executes    *)
(* the whole file top to bottom.  One run regenerates the base dataset     *)
(* `df` from a freshly seeded pseudo-random stream, reads the two select   *)
(* boxes, derives `filtered_df`, emits warnings and renders eight charts.  *)
(*                                                                         *)
(* Conventions of the model                                                *)
(*   - a DataFrame is a sequence of rows, a row is a record whose fields   *)
(*     are the column names with blanks and brackets replaced by "_";      *)
(*   - the result of a groupby is a set of rows (one per non-empty group); *)
(*     the order pandas gives the groups (sorted keys) is not modelled;    *)
(*   - amounts are whole dollars: a float drawn by the library is          *)
(*     represented by its integer part;                                    *)
(*   - numpy's generator is represented by a linear congruential stream    *)
(*     of Resolution equidistant values in [0, 1); which stream the        *)
(*     library produces for the seed is left open (variable `lib`).        *)
(***************************************************************************)
EXTENDS Integers, Sequences, FiniteSets, TLC

(***************************************************************************)
(* Bounds of the model.                                                    *)
(***************************************************************************)
\* number of candidate library streams explored for the fixed seed
NumStreams == 2
\* number of distinct values random_sample() can return
Resolution == 4096
\* number of re-runs of the script followed after the first run
MaxRuns == 2

(***************************************************************************)
(* Program constants.                                                      *)
(***************************************************************************)
Seed == 42
StartYear == 2024
StartMonth == 1
NumMonths == 12
FirstCarrier == 1
CarrierStop == 11
InvoiceLow == 1000
InvoiceHigh == 5000
DisputeChancePercent == 20
DisputeCapPercent == 30
MinCarriers == 3

VARIABLES
    lib,             \* which pseudo-random stream the library yields for the seed
    df,              \* the base dataset of the last run
    dispute_flags,   \* the local is_disputed of each generated row, in row order
    carrier_filter,  \* value of the "Select Carrier (Optional)" select box
    month_filter,    \* value of the "Select Month (Optional)" select box
    filtered_df,     \* the filtered view of the last run
    warnings,        \* the st.warning messages of the last run, in order
    charts,          \* what the last run put under each of the eight headings
    runs             \* number of re-runs so far

vars == <<lib, df, dispute_flags, carrier_filter, month_filter, filtered_df, warnings, charts, runs>>

\* Python's None: a token that is none of the labels the generator draws.
None == "None"
All == "All"

ReconciliationChoices == <<"Pending", "Completed", "In Progress">>
DisputeTypeChoices == <<"Rate Dispute", "Volume Dispute">>
SettlementChoices == <<"Settled", "Unsettled">>

(***************************************************************************)
(* Formatting: strftime('%Y-%m') and f'Carrier {i}'.                       *)
(***************************************************************************)
Digit == <<"0", "1", "2", "3", "4", "5", "6", "7", "8", "9">>

RECURSIVE IntStr(_)
IntStr(n) == IF n < 10 THEN Digit[n + 1] ELSE IntStr(n \div 10) \o Digit[(n % 10) + 1]

\* %m: the month number, zero-padded to two digits
Pad2(n) == IF n < 10 THEN "0" \o IntStr(n) ELSE IntStr(n)

\* a date is [year, month]; the day (month end, freq='M') does not survive '%Y-%m'
strftime(date) == IntStr(date.year) \o "-" \o Pad2(date.month)

\* pd.date_range(start="2024-01-01", periods=12, freq='M'): the k-th month end
date_range(k) ==
    LET m0 == (StartMonth - 1) + (k - 1)
    IN [year |-> StartYear + (m0 \div 12), month |-> (m0 % 12) + 1]

months == [k \in 1..NumMonths |-> strftime(date_range(k))]

\* variant: range(1, 10), the last carrier is lost
carriers_short ==
    [i \in 1..(CarrierStop - FirstCarrier - 1) |-> "Carrier " \o IntStr(FirstCarrier + i - 1)]

carriers == [i \in 1..(CarrierStop - FirstCarrier) |-> "Carrier " \o IntStr(FirstCarrier + i - 1)]

(***************************************************************************)
(* The pseudo-random stream.                                               *)
(***************************************************************************)
\* variant: the seed call is missing, the stream goes on from where the
\* previous run left it
seed_missing(stream) == [lib |-> stream, x |-> (Seed + 1000 * stream + runs) % Resolution]

\* np.random.seed(42): the state the library derives from the seed
seed(stream) == [lib |-> stream, x |-> (Seed + 1000 * stream) % Resolution]

\* one step of the generator; x / Resolution is the value random_sample() returns
Advance(rng) == [rng EXCEPT !.x = (1021 * rng.x + 2 * rng.lib + 1) % Resolution]

\* np.random.uniform(low/den, high/den) = low + (high - low) * random_sample(),
\* integer part
uniform(low, high, den, x) == ((low * Resolution) + ((high - low) * x)) \div (den * Resolution)

\* np.random.rand() < 0.2
rand_below(percent, x) == 100 * x < percent * Resolution

\* np.random.choice(list)
choice(list, x) == list[((Len(list) * x) \div Resolution) + 1]

(***************************************************************************)
(* generate_sample_data                                                    *)
(***************************************************************************)
\* variant: the 0.3 factor is missing, the dispute may reach the whole invoice
disputed_draw_uncapped(invoice_amount, x) == uniform(0, 100 * invoice_amount, 100, x)

\* "Dispute amount between 0% and 30% of invoice"
disputed_draw(invoice_amount, x) == uniform(0, DisputeCapPercent * invoice_amount, 100, x)

\* body of the inner loop: the draws of one (month, carrier) pair, in order
draw_record(month, carrier, rng) ==
    LET g1 == Advance(rng)
        invoice_amount == uniform(InvoiceLow, InvoiceHigh, 1, g1.x)
        g2 == Advance(g1)
        is_disputed == rand_below(DisputeChancePercent, g2.x)
        g3 == IF is_disputed THEN Advance(g2) ELSE g2
        disputed_amount == IF is_disputed THEN disputed_draw(invoice_amount, g3.x) ELSE 0
        g4 == Advance(g3)
        g5 == IF is_disputed THEN Advance(g4) ELSE g4
        g6 == IF is_disputed THEN Advance(g5) ELSE g5
    IN [row |-> [Carrier_Name |-> carrier,
                 Invoice_Amount_USD |-> invoice_amount,
                 Disputed_Amount_USD |-> disputed_amount,
                 Reconciliation_Status |-> choice(ReconciliationChoices, g4.x),
                 Dispute_Type |-> IF is_disputed THEN choice(DisputeTypeChoices, g5.x) ELSE None,
                 Settlement_Status |-> IF is_disputed THEN choice(SettlementChoices, g6.x)
                                       ELSE "Settled",
                 Invoice_Month |-> month],
        is_disputed |-> is_disputed,
        rng |-> g6]

\* for carrier in carriers: ... data.append({...})
RECURSIVE carrier_loop(_, _, _, _)
carrier_loop(month, j, data, rng) ==
    IF j > Len(carriers) THEN [data |-> data, rng |-> rng]
    ELSE LET r == draw_record(month, carriers[j], rng)
         IN carrier_loop(month, j + 1,
                         Append(data, [row |-> r.row, is_disputed |-> r.is_disputed]), r.rng)

\* for month in months: for carrier in carriers: ...
RECURSIVE month_loop(_, _, _)
month_loop(k, data, rng) ==
    IF k > Len(months) THEN data
    ELSE LET r == carrier_loop(months[k], 1, data, rng)
         \* the test is always true: it makes TLC evaluate this month's rows
         \* before it descends into the next month
         IN IF Len(r.data) >= Len(data) THEN month_loop(k + 1, r.data, r.rng) ELSE data

\* the list `data` with, next to every appended dict, the local is_disputed
\* of the iteration that appended it
generate_trace(stream) == month_loop(1, <<>>, seed(stream))

\* pd.DataFrame(data)
generate_sample_data(stream) ==
    LET data == generate_trace(stream) IN [i \in 1..Len(data) |-> data[i].row]

(***************************************************************************)
(* The pandas operations the script uses.                                  *)
(***************************************************************************)
\* frame[col]: one column, in row order
column(frame, col) == [i \in 1..Len(frame) |-> frame[i][col]]

\* Series.unique(): the distinct values in order of first appearance
unique(values) ==
    LET first == { i \in 1..Len(values) : \A j \in 1..(i - 1) : values[j] # values[i] }
        rank(i) == Cardinality({ j \in first : j <= i })
    IN [k \in 1..Cardinality(first) |-> values[CHOOSE i \in first : rank(i) = k]]

\* frame[frame[col] == value]: the rows whose column equals value, in frame order
where_eq(frame, col, value) == SelectSeq(frame, LAMBDA row : row[col] = value)

\* variant: the emptiness test never fires
empty_never(frame) == FALSE

\* DataFrame.empty
empty(frame) == Len(frame) = 0

\* Series.sum() of one column (rows lo..hi, summed pairwise)
RECURSIVE sum_rows(_, _, _, _)
sum_rows(frame, col, lo, hi) ==
    IF lo > hi THEN 0
    ELSE IF lo = hi THEN frame[lo][col]
    ELSE LET mid == (lo + hi) \div 2
         IN sum_rows(frame, col, lo, mid) + sum_rows(frame, col, mid + 1, hi)

sum(frame, col) == sum_rows(frame, col, 1, Len(frame))

\* the keys of frame.groupby(by): the distinct combinations of the `by` columns;
\* a row with a null key is left out (dropna=True is the default)
group_keys(frame, by) ==
    { [c \in by |-> frame[i][c]] : i \in { j \in 1..Len(frame) : \A c \in by : frame[j][c] # None } }

\* the rows of one group
group(frame, key) == SelectSeq(frame, LAMBDA row : \A c \in DOMAIN key : row[c] = key[c])

\* frame.groupby(by).agg({v: 'sum' for v in values}).reset_index()
groupby_sum(frame, by, values) ==
    { [c \in by \cup values |-> IF c \in by THEN key[c] ELSE sum(group(frame, key), c)] :
        key \in group_keys(frame, by) }

\* frame.groupby(by).size().reset_index(name='Count')
groupby_size(frame, by) ==
    { [c \in by \cup {"Count"} |-> IF c \in by THEN key[c] ELSE Len(group(frame, key))] :
        key \in group_keys(frame, by) }

(***************************************************************************)
(* The script, lines 40-66: dataset, select boxes, filters, warnings.      *)
(***************************************************************************)
\* options=["All"] + list(df['Carrier Name'].unique())
carrier_options(frame) == <<All>> \o unique(column(frame, "Carrier_Name"))

\* variant: the month options come from a 13-month calendar, not from the data
month_options_calendar(frame) ==
    <<All>> \o [k \in 1..(NumMonths + 1) |-> strftime(date_range(k))]

\* options=["All"] + list(df['Invoice Month'].unique())
month_options(frame) == <<All>> \o unique(column(frame, "Invoice_Month"))

\* variant: the month mask is taken from df, which drops the carrier mask
apply_filters_month_from_df(frame, carrier, month) ==
    LET by_carrier == IF carrier # All THEN where_eq(frame, "Carrier_Name", carrier) ELSE frame
    IN IF month # All THEN where_eq(frame, "Invoice_Month", month) ELSE by_carrier

\* filtered_df = df.copy(), then one boolean mask per selector that is not "All"
apply_filters(frame, carrier, month) ==
    LET copy == frame
        by_carrier == IF carrier # All THEN where_eq(copy, "Carrier_Name", carrier) ELSE copy
    IN IF month # All THEN where_eq(by_carrier, "Invoice_Month", month) ELSE by_carrier

\* len(filtered_df['Carrier Name'].unique())
carrier_count(frame) == Len(unique(column(frame, "Carrier_Name")))

NoDataWarning ==
    "No data available for the selected filters. Please adjust your filters and try again."

FewCarriersWarning(n) ==
    "Only " \o IntStr(n)
        \o " carrier(s) available for the selected month. Please adjust the filters for a better view."

NoDataText == "No data to display for the selected filter."

\* variant: the test of the month selector is missing
few_carriers_any_month(frame, month) == carrier_count(frame) < MinCarriers

\* the condition of line 65
few_carriers(frame, month) == month # All /\ carrier_count(frame) < MinCarriers

\* the st.warning calls of lines 62-66
emit_warnings(frame, month) ==
    IF empty(frame) THEN <<NoDataWarning>>
    ELSE IF few_carriers(frame, month) THEN <<FewCarriersWarning(carrier_count(frame))>>
    ELSE <<>>
(***************************************************************************)
(* The script, lines 68-188: the table behind each of the eight charts.    *)
(***************************************************************************)
Amounts == {"Invoice_Amount_USD", "Disputed_Amount_USD"}

\* px.bar(filtered_df, x='Carrier Name', y=[...], barmode="group"): the frame is
\* handed to the chart as it is, one pair of bars per row
processed_vs_disputed(frame) ==
    [i \in 1..Len(frame) |-> [c \in {"Carrier_Name"} \cup Amounts |-> frame[i][c]]]

monthly_disputes(frame) == groupby_sum(frame, {"Invoice_Month"}, Amounts)

pending_reconciliation(frame) == where_eq(frame, "Reconciliation_Status", "Pending")

pending_reconciliation_summary(frame) ==
    groupby_sum(pending_reconciliation(frame), {"Carrier_Name"}, Amounts)

reconciliation_trend(frame) == groupby_size(frame, {"Invoice_Month", "Reconciliation_Status"})

dispute_type(frame) ==
    groupby_sum(frame, {"Carrier_Name", "Dispute_Type"}, {"Disputed_Amount_USD"})

dispute_status(frame) ==
    groupby_sum(frame, {"Carrier_Name", "Settlement_Status"}, {"Disputed_Amount_USD"})

settlement_status(frame) == groupby_size(frame, {"Carrier_Name", "Settlement_Status"})

settled_vs_outstanding(frame) ==
    groupby_sum(frame, {"Carrier_Name", "Settlement_Status"}, {"Invoice_Amount_USD"})

\* if not filtered_df.empty: st.plotly_chart(...)  else: st.write("No data ...")
section(frame, table) ==
    IF ~empty(frame) THEN [kind |-> "chart", table |-> table]
    ELSE [kind |-> "text", text |-> NoDataText]

\* the four tabs of the else branch of line 64
tabs(frame) ==
    [processed_vs_disputed |-> section(frame, processed_vs_disputed(frame)),
     monthly_disputes |-> section(frame, monthly_disputes(frame)),
     pending_reconciliation_summary |-> section(frame, pending_reconciliation_summary(frame)),
     reconciliation_trend |-> section(frame, reconciliation_trend(frame)),
     dispute_type |-> section(frame, dispute_type(frame)),
     dispute_status |-> section(frame, dispute_status(frame)),
     settlement_status |-> section(frame, settlement_status(frame)),
     settled_vs_outstanding |-> section(frame, settled_vs_outstanding(frame))]

ChartNames == {"processed_vs_disputed", "monthly_disputes", "pending_reconciliation_summary",
               "reconciliation_trend", "dispute_type", "dispute_status", "settlement_status",
               "settled_vs_outstanding"}

\* lines 62-69: with an empty frame the run ends after the warning, no tab is built
render(frame) ==
    IF empty(frame) THEN [n \in ChartNames |-> [kind |-> "none"]] ELSE tabs(frame)

(***************************************************************************)
(* One execution of the script, top to bottom.                             *)
(***************************************************************************)
\* the local is_disputed of every iteration of generate_sample_data
flags_of(stream) ==
    LET data == generate_trace(stream) IN [i \in 1..Len(data) |-> data[i].is_disputed]

Range(s) == { s[i] : i \in 1..Len(s) }

\* the first run: both select boxes show their first option, "All"
Init ==
    /\ lib \in 1..NumStreams
    /\ runs = 0
    /\ df = generate_sample_data(lib)
    /\ dispute_flags = flags_of(lib)
    /\ carrier_filter = All
    /\ month_filter = All
    /\ filtered_df = apply_filters(df, carrier_filter, month_filter)
    /\ warnings = emit_warnings(filtered_df, month_filter)
    /\ charts = render(filtered_df)

\* a widget changed: the script runs again from the top
Rerun(carrier, month) ==
    /\ df' = generate_sample_data(lib)
    /\ dispute_flags' = flags_of(lib)
    /\ carrier_filter' = carrier
    /\ month_filter' = month
    /\ filtered_df' = apply_filters(df', carrier_filter', month_filter')
    /\ warnings' = emit_warnings(filtered_df', month_filter')
    /\ charts' = render(filtered_df')
    /\ runs' = runs + 1
    /\ UNCHANGED lib

\* the user picks another entry of the carrier select box
SelectCarrier(c) ==
    /\ runs < MaxRuns
    /\ c # carrier_filter
    /\ Rerun(c, month_filter)

\* the user picks another entry of the month select box
SelectMonth(m) ==
    /\ runs < MaxRuns
    /\ m # month_filter
    /\ Rerun(carrier_filter, m)

Next ==
    \/ \E c \in Range(carrier_options(df)) : SelectCarrier(c)
    \/ \E m \in Range(month_options(df)) : SelectMonth(m)

Spec == Init /\ [][Next]_vars

(***************************************************************************)
(* The filter stage as a function of its two selectors: the same script,   *)
(* driven with selector strings that need not be entries of the select     *)
(* boxes.                                                                  *)
(***************************************************************************)
OtherCarriers == {"Carrier 11"}
OtherMonths == {"2025-01"}

ApplyCarrier(c) ==
    /\ runs < MaxRuns
    /\ c # carrier_filter
    /\ Rerun(c, month_filter)

ApplyMonth(m) ==
    /\ runs < MaxRuns
    /\ m # month_filter
    /\ Rerun(carrier_filter, m)

NextAny ==
    \/ \E c \in Range(carrier_options(df)) \cup OtherCarriers : ApplyCarrier(c)
    \/ \E m \in Range(month_options(df)) \cup OtherMonths : ApplyMonth(m)

SpecAny == Init /\ [][NextAny]_vars

(***************************************************************************)
(* Properties.                                                             *)
(***************************************************************************)
ExpectedMonths == <<"2024-01", "2024-02", "2024-03", "2024-04", "2024-05", "2024-06",
                    "2024-07", "2024-08", "2024-09", "2024-10", "2024-11", "2024-12">>

ExpectedCarriers == <<"Carrier 1", "Carrier 2", "Carrier 3", "Carrier 4", "Carrier 5",
                      "Carrier 6", "Carrier 7", "Carrier 8", "Carrier 9", "Carrier 10">>

\* whether a row passes the pair of selectors
Selected(row, carrier, month) ==
    /\ carrier = All \/ row.Carrier_Name = carrier
    /\ month = All \/ row.Invoice_Month = month

\* the rows of base that pass the selectors, in base order
ExpectedView(base, carrier, month) ==
    SelectSeq(base, LAMBDA row : Selected(row, carrier, month))

\* position of a row in the base dataset
Position(row) == CHOOSE i \in 1..Len(df) : df[i] = row

CarriersIn(frame) == { frame[i].Carrier_Name : i \in 1..Len(frame) }

RowsOf(frame, carrier) == { i \in 1..Len(frame) : frame[i].Carrier_Name = carrier }

RECURSIVE Total(_, _, _)
Total(frame, rows, col) ==
    IF rows = {} THEN 0
    ELSE LET i == CHOOSE j \in rows : TRUE
         IN frame[i][col] + Total(frame, rows \ {i}, col)

AllCharted == \A name \in ChartNames : charts[name].kind = "chart"

OneCarrierWarning ==
    "Only 1 carrier(s) available for the selected month. Please adjust the filters for a better view."

C2_FieldConsistency ==
    /\ Len(dispute_flags) = Len(df)
    /\ \A i \in 1..Len(df) :
          IF dispute_flags[i]
          THEN /\ df[i].Disputed_Amount_USD >= 0
               /\ 10 * df[i].Disputed_Amount_USD < 3 * df[i].Invoice_Amount_USD
               /\ df[i].Dispute_Type \in {"Rate Dispute", "Volume Dispute"}
               /\ df[i].Dispute_Type # None
               /\ df[i].Settlement_Status \in {"Settled", "Unsettled"}
          ELSE /\ df[i].Disputed_Amount_USD = 0
               /\ df[i].Dispute_Type = None
               /\ df[i].Settlement_Status = "Settled"

C2_Witness ==
    /\ \E i \in 1..Len(df) : /\ dispute_flags[i]
                             /\ df[i].Disputed_Amount_USD > 0
                             /\ df[i].Dispute_Type = "Volume Dispute"
                             /\ df[i].Settlement_Status = "Unsettled"
    /\ \E i \in 1..Len(df) : /\ dispute_flags[i]
                             /\ df[i].Dispute_Type = "Rate Dispute"
                             /\ df[i].Settlement_Status = "Settled"
    /\ \E i \in 1..Len(df) : ~dispute_flags[i]

\* C3: a base row is in the filtered set iff it passes both selectors (each
\* "All" or an exact match); the filtered rows keep their base order; with
\* ("All", "All") the filtered set is the whole base dataset of 120 rows.
C3_FilterSemantics ==
    /\ \A i \in 1..Len(df) :
          (\E k \in 1..Len(filtered_df) : filtered_df[k] = df[i])
              <=> Selected(df[i], carrier_filter, month_filter)
    /\ \A k \in 1..Len(filtered_df) : \E i \in 1..Len(df) : df[i] = filtered_df[k]
    /\ \A k \in 1..Len(filtered_df) : \A l \in 1..Len(filtered_df) :
          k < l => Position(filtered_df[k]) < Position(filtered_df[l])
    /\ (carrier_filter = All /\ month_filter = All) => (filtered_df = df /\ Len(filtered_df) = 120)

C3_Witness ==
    /\ carrier_filter = "Carrier 3"
    /\ month_filter = All
    /\ Len(filtered_df) = 12
    /\ \A k \in 1..12 : filtered_df[k].Invoice_Month = ExpectedMonths[k]

\* C4: a change of selection leaves the base dataset as it was, and the new
\* filtered view is the filter of the base dataset under the new selectors
\* alone, whatever was selected before.
C4_ViewFromCurrentSelectors ==
    [][/\ df' = df
       /\ Len(df') = 120
       /\ filtered_df' = ExpectedView(df, carrier_filter', month_filter')]_vars

\* a narrower selection was made and then undone: the view is whole again
C4_Witness ==
    /\ runs >= 2
    /\ carrier_filter = All
    /\ month_filter = All
    /\ Len(filtered_df) = 120

InvalidSelector ==
    \/ carrier_filter \notin Range(carrier_options(df))
    \/ month_filter \notin Range(month_options(df))

C6_CoverageWarning ==
    filtered_df # <<>> =>
        IF month_filter # All /\ Cardinality(CarriersIn(filtered_df)) < 3
        THEN /\ warnings = <<FewCarriersWarning(Cardinality(CarriersIn(filtered_df)))>>
             /\ AllCharted
             /\ Len(charts["processed_vs_disputed"].table) = Len(filtered_df)
        ELSE warnings = <<>>

C6_Witness ==
    /\ carrier_filter = "Carrier 2"
    /\ month_filter = "2024-05"
    /\ Len(filtered_df) = 1
    /\ warnings = <<OneCarrierWarning>>
    /\ AllCharted

\* C7: with an empty filtered set the run reports "no data" and puts
\* nothing under any of the eight headings; no chart is ever built over an
\* empty filtered set.
C7_EmptyShortCircuit ==
    /\ filtered_df = <<>> =>
          /\ warnings = <<NoDataWarning>>
          /\ \A name \in ChartNames : charts[name].kind = "none"
    /\ (\E name \in ChartNames : charts[name].kind = "chart") => filtered_df # <<>>

C7_Witness ==
    /\ carrier_filter = "Carrier 11"
    /\ month_filter = "2024-03"
    /\ filtered_df = <<>>
    /\ warnings = <<NoDataWarning>>

\* C8: the table behind "Disputed vs Processed Amounts by Carrier" has one
\* row per distinct carrier of the filtered set, holding the sums of that
\* carrier's invoice and disputed amounts.
C8_CarrierTotals ==
    charts["processed_vs_disputed"].kind = "chart" =>
        LET table == charts["processed_vs_disputed"].table
        IN /\ Len(table) = Cardinality(CarriersIn(filtered_df))
           /\ \A c \in CarriersIn(filtered_df) :
                 \E i \in 1..Len(table) :
                    /\ table[i].Carrier_Name = c
                    /\ table[i].Invoice_Amount_USD =
                          Total(filtered_df, RowsOf(filtered_df, c), "Invoice_Amount_USD")
                    /\ table[i].Disputed_Amount_USD =
                          Total(filtered_df, RowsOf(filtered_df, c), "Disputed_Amount_USD")

\* C9: with a non-empty filtered set that has no Pending row (no row with a
\* dispute type), the pending-reconciliation (dispute-type) heading shows the
\* "no data" text, not a chart of an empty table.
C9_EmptyGroupNoData ==
    /\ (filtered_df # <<>> /\ \A i \in 1..Len(filtered_df) :
                                  filtered_df[i].Reconciliation_Status # "Pending")
          => charts["pending_reconciliation_summary"].kind = "text"
    /\ (filtered_df # <<>> /\ \A i \in 1..Len(filtered_df) : filtered_df[i].Dispute_Type = None)
          => charts["dispute_type"].kind = "text"

\* C10: under every selection the select boxes offer, the filtered set is
\* non-empty and "no data" is never reported; the carrier warning appears
\* exactly when both selectors are specific, always with the count 1; with
\* carrier "All" a selected month keeps all 10 carriers.
C10_SelectBoxReachability ==
    /\ filtered_df # <<>>
    /\ \A k \in 1..Len(warnings) : warnings[k] # NoDataWarning
    /\ (carrier_filter # All /\ month_filter # All) <=> (warnings = <<OneCarrierWarning>>)
    /\ warnings # <<>> => warnings = <<OneCarrierWarning>>
    /\ (carrier_filter = All /\ month_filter # All) => Cardinality(CarriersIn(filtered_df)) = 10

C10_Witness ==
    /\ carrier_filter = "Carrier 10"
    /\ month_filter = "2024-12"
    /\ filtered_df # <<>>
    /\ warnings = <<OneCarrierWarning>>
====
